---------------------------- MODULE Spec2Model ----------------------------
(***************************************************************************)
(* Conversation orchestration of the Todo chatbot backend                  *)
(* (backend/src/api/chat.py): the chat turn, the conversation directory    *)
(* (list, get-messages, delete) and the store they share; and the task     *)
(* endpoints (backend/src/api/tasks.py), which run under TaskSpec.         *)
(*                                                                         *)
(* The store is the committed content of the two tables.  Every handler    *)
(* opens its own session per helper call (async_session_factory), so one   *)
(* model step is one awaited statement or one commit; a commit applies the *)
(* session's pending writes as one unit.  Procs are the requests in flight,*)
(* each served once by its own handler, in any interleaving.               *)
(*                                                                         *)
(* No statement of the source                                              *)
(* enables foreign-key enforcement and the default DATABASE_URL is SQLite  *)
(* (db/__init__.py:14), so an insert of a message whose conversation row   *)
(* is gone is accepted by the store.                                       *)
(*                                                                         *)
(* utcnow() is a clock that never runs backwards; two reads may return the *)
(* same value, except across the agent call, a network round trip that     *)
(* lasts longer than one tick of the clock.  Time that passes between two  *)
(* reads shows only in the later read, so the clock variable moves at the  *)
(* reads (Now) and when an agent call returns in the tick it was made in.  *)
(***************************************************************************)
EXTENDS Integers, Sequences, FiniteSets

\* ------------------------------------------------------------------ bounds
MaxClock == 2

\* The requests, each handled once, and the users that send them.
Procs == {"p1", "p2"}
Users == {"A", "B"}

\* ------------------------------------------------------------- input spaces
Whitespace == {" ", "\t"}

\* content[:80] cuts a message of more than PreviewLen characters.
PreviewLen == 80
LongMessage == [i \in 1..(PreviewLen + 1) |-> "b"]

RawMessages == { <<" ">>, <<" ", "a", "\t">>, LongMessage }

AgentContents == { <<"o", "k">> }

ToolCall == [tool_name |-> "add_task", arguments |-> "title", result |-> "created"]

SecondToolCall == [tool_name |-> "list_tasks", arguments |-> "", result |-> "1 task"]

AgentToolCalls == { << >>, <<ToolCall, SecondToolCall>> }

AgentErrors == { "RateLimitError" }

\* Optional values: absent is the empty tuple, present is a 1-tuple.
Null == << >>
Some(x) == <<x>>

\* -------------------------------------------------------------- responses
Detail400 == "I didn't catch that. Could you tell me what you'd like to do with your tasks?"
Detail500 == "I'm having trouble processing your request right now. Please try again."
Detail404 == "Conversation not found."
NewConversation ==
    <<"N", "e", "w", " ", "c", "o", "n", "v", "e", "r", "s", "a", "t", "i", "o", "n">>

NoResult == [status |-> 0, detail |-> "", body |-> << >>]

VARIABLES
    conversations,  \* committed rows of table conversations: id -> row
    messages,       \* committed rows of table messages, in commit order
    nextConvId,     \* uuid4() for conversations: the next fresh id
    nextMsgId,      \* uuid4() for messages: the next fresh id
    clock,          \* datetime.utcnow()
    pc,             \* per request handler: the statement it is about to run
    loc,            \* per request handler: its local variables
    result,         \* per request handler: the response it produced
    creator,        \* history: owner of every conversation ever created
    removed,        \* history: ids of the messages removed by a delete
    shared,         \* history: conversations a later chat or delete resolved
    tasks,          \* committed rows of table tasks: id -> row
    nextTaskId,     \* uuid4() for tasks: the next fresh id
    tloc            \* per request handler of api/tasks.py: its local variables

taskVars == <<tasks, nextTaskId, tloc>>

vars == <<conversations, messages, nextConvId, nextMsgId, clock,
          pc, loc, result, creator, removed, shared, tasks, nextTaskId, tloc>>

\* ------------------------------------------------------------ pure helpers

\* str.strip(): drop leading and trailing whitespace.
RECURSIVE LStrip(_)
LStrip(s) ==
    IF s # << >> /\ Head(s) \in Whitespace THEN LStrip(Tail(s)) ELSE s

RECURSIVE RStrip(_)
RStrip(s) ==
    IF s # << >> /\ s[Len(s)] \in Whitespace
    THEN RStrip(SubSeq(s, 1, Len(s) - 1))
    ELSE s

StripIdentity(s) == s

Strip(s) == RStrip(LStrip(s))

\* A preview that keeps the whole content.
KeepWhole(s, n) == s

\* content[:80]
Truncate(s, n) == IF Len(s) <= n THEN s ELSE SubSeq(s, 1, n)

SeqToSet(s) == { s[i] : i \in 1..Len(s) }

\* The rows of messages that satisfy a WHERE clause, as a set.
MessagesOf(cid) == { m \in SeqToSet(messages) : m.conversation_id = cid }

UserMessagesOf(cid) == { m \in MessagesOf(cid) : m.role = "user" }

\* ORDER BY created_at ASC: every order of the rows that is non-decreasing in
\* created_at.  The statement names no second key, so rows with the same
\* created_at come back in an order the store chooses.
RECURSIVE OrderByCreatedAt(_)
OrderByCreatedAt(S) ==
    IF S = {} THEN { << >> }
    ELSE UNION { { <<m>> \o t : t \in OrderByCreatedAt(S \ {m}) } :
                 m \in { x \in S : \A y \in S : x.created_at <= y.created_at } }

\* An ordering by updated_at that puts the oldest first.
RECURSIVE OrderByUpdatedAtAsc(_)
OrderByUpdatedAtAsc(S) ==
    IF S = {} THEN { << >> }
    ELSE UNION { { <<c>> \o t : t \in OrderByUpdatedAtAsc(S \ {c}) } :
                 c \in { x \in S : \A y \in S :
                            conversations[x].updated_at <= conversations[y].updated_at } }

\* ORDER BY updated_at DESC over conversation ids.
RECURSIVE OrderByUpdatedAtDesc(_)
OrderByUpdatedAtDesc(S) ==
    IF S = {} THEN { << >> }
    ELSE UNION { { <<c>> \o t : t \in OrderByUpdatedAtDesc(S \ {c}) } :
                 c \in { x \in S : \A y \in S :
                            conversations[x].updated_at >= conversations[y].updated_at } }

\* The sequence of rows s without the rows whose id is in ids.
RECURSIVE FilterOut(_, _)
FilterOut(s, ids) ==
    IF s = << >> THEN << >>
    ELSE IF Head(s).id \in ids THEN FilterOut(Tail(s), ids)
         ELSE <<Head(s)>> \o FilterOut(Tail(s), ids)

\* ------------------------------------------------------------------- Init
NoTask == [op |-> "none", user |-> "A", task_id |-> 0, row |-> << >>]

NoLoc ==
    [op |-> "none", turn |-> 0, user |-> "A", raw |-> << >>, message |-> << >>,
     cid |-> Null, conv |-> 0, created |-> FALSE, history |-> << >>,
     msg |-> Null, touch |-> Null, touches |-> 0, called |-> Null,
     response |-> Null,
     error |-> Null,
     before |-> {}, marked |-> {}, rows |-> << >>, responses |-> << >>]

Init ==
    /\ conversations = << >>
    /\ messages = << >>
    /\ nextConvId = 1
    /\ nextMsgId = 1
    /\ clock = 0
    /\ pc = [p \in Procs |-> "idle"]
    /\ loc = [p \in Procs |-> NoLoc]
    /\ result = [p \in Procs |-> NoResult]
    /\ creator = << >>
    /\ removed = {}
    /\ shared = {}
    /\ tasks = << >>
    /\ nextTaskId = 1
    /\ tloc = [p \in Procs |-> NoTask]

\* Conversation ids a client can send: none, an id no conversation ever had
\* (fresh ids start at 1), or the id of any conversation that was ever created.
UnknownId == 0
ConvIdInputs == { UnknownId } \cup (1..(nextConvId - 1))

\* ------------------------------------------------------------ the chat turn

\* datetime.utcnow(): the values a read of the clock can return.
Now == clock..MaxClock

Set(p, fields) == [loc EXCEPT ![p] = fields]

\* A lookup that drops the owner from the WHERE clause.
GocSelectAnyOwner(user_id, conversation_id) ==
    IF conversation_id # Null /\ conversation_id[1] \in DOMAIN conversations
    THEN Some(conversation_id[1])
    ELSE Null

\* get_or_create_conversation, lines 54-60:
\* select(Conversation).where(id == conversation_id, user_id == user_id)
GocSelect(user_id, conversation_id) ==
    IF /\ conversation_id # Null
       /\ conversation_id[1] \in DOMAIN conversations
       /\ conversations[conversation_id[1]].user_id = user_id
    THEN Some(conversation_id[1])
    ELSE Null

\* Conversation(user_id=user_id): fresh id, created_at = updated_at = now.
NewConversationRow(user_id, now) ==
    [user_id |-> user_id, created_at |-> now, updated_at |-> now]

\* Conversation.touch(): updated_at = now.
Touch(row, now) == [row EXCEPT !.updated_at = now]

ValidationError == [status |-> 400, detail |-> Detail400, body |-> << >>]

\* A handler that answers with the text of the error it caught.
ChatFailureLeaky(err) == [status |-> 500, detail |-> err, body |-> << >>]

\* except Exception as e: log it, answer the fixed text.
ChatFailure(err) == [status |-> 500, detail |-> Detail500, body |-> << >>]

NotFound == [status |-> 404, detail |-> Detail404, body |-> << >>]

\* chat(), lines 129-141: strip and validate, then get_or_create_conversation.
ChatStart(p) ==
    /\ pc[p] = "idle"
    /\ \E u \in Users, raw \in RawMessages,
          cid \in {Null} \cup { Some(i) : i \in ConvIdInputs } :
        LET message == Strip(raw)
            found == GocSelect(u, cid)
            base == [NoLoc EXCEPT !.op = "chat", !.user = u, !.raw = raw,
                                  !.message = message, !.cid = cid]
        IN  IF message = << >>
            THEN /\ pc' = [pc EXCEPT ![p] = "done"]
                 /\ loc' = Set(p, base)
                 /\ result' = [result EXCEPT ![p] = ValidationError]
                 /\ UNCHANGED <<conversations, nextConvId, creator, shared, clock>>
            ELSE IF found # Null
            THEN /\ pc' = [pc EXCEPT ![p] = "history"]
                 /\ loc' = Set(p, [base EXCEPT !.conv = found[1]])
                 /\ shared' = shared \cup {found[1]}
                 /\ UNCHANGED <<conversations, nextConvId, creator, result, clock>>
            ELSE /\ \E now \in Now :
                      /\ clock' = now
                      /\ conversations' =
                           [c \in DOMAIN conversations \cup {nextConvId} |->
                              IF c = nextConvId THEN NewConversationRow(u, now)
                              ELSE conversations[c]]
                 /\ creator' = Append(creator, u)
                 /\ nextConvId' = nextConvId + 1
                 /\ pc' = [pc EXCEPT ![p] = "history"]
                 /\ loc' = Set(p, [base EXCEPT !.conv = nextConvId,
                                               !.created = TRUE])
                 /\ UNCHANGED <<result, shared>>
    /\ UNCHANGED <<messages, nextMsgId, removed>>
    /\ UNCHANGED taskVars

\* A history read that already sees the row this turn is about to write.
HistoryRowsAfterSave(p) ==
    OrderByCreatedAt(MessagesOf(loc[p].conv)
        \cup { [id |-> nextMsgId, conversation_id |-> loc[p].conv, role |-> "user",
                content |-> loc[p].message, tool_calls |-> Null,
                created_at |-> clock, turn |-> nextMsgId] })

\* load_conversation_history, lines 80-87: the rows the statement returns.
HistoryRows(p) == OrderByCreatedAt(MessagesOf(loc[p].conv))

\* line 89: the {role, content} pairs handed to the agent.
Project(rows) ==
    [i \in 1..Len(rows) |-> [role |-> rows[i].role, content |-> rows[i].content]]

\* chat(), line 143.
LoadHistory(p) ==
    /\ pc[p] = "history"
    /\ \E rows \in HistoryRows(p) :
         loc' = Set(p, [loc[p] EXCEPT !.history = Project(rows)])
    /\ pc' = [pc EXCEPT ![p] = "save_user"]
    /\ UNCHANGED <<conversations, messages, nextConvId, nextMsgId, clock,
                   result, creator, removed, shared>>
    /\ UNCHANGED taskVars

\* A tool_calls_data that is the list also when the list is empty.
ToolCallsDataAlways(tool_calls) ==
    Some([i \in 1..Len(tool_calls) |->
            [tool_name |-> tool_calls[i].tool_name,
             arguments |-> tool_calls[i].arguments,
             result |-> tool_calls[i].result]])

\* tool_calls_data, lines 158-165: the agent's list if non-empty, else None.
ToolCallsData(tool_calls) ==
    IF tool_calls # << >>
    THEN Some([i \in 1..Len(tool_calls) |->
                 [tool_name |-> tool_calls[i].tool_name,
                  arguments |-> tool_calls[i].arguments,
                  result |-> tool_calls[i].result]])
    ELSE Null

\* save_message, lines 100-113: build the row (its created_at is read when it
\* is built), look the conversation up by id alone, touch it when it is there
\* (a second read of the clock).  The turn field is bookkeeping of the model:
\* the id of the user message of the turn that wrote the row; so is touches,
\* the number of calls of touch() the turn has made.
SaveBegin(p) ==
    /\ pc[p] \in {"save_user", "save_asst"}
    /\ \E built \in Now : \E now \in built..MaxClock :
       LET user == pc[p] = "save_user"
           turn == IF user THEN nextMsgId ELSE loc[p].turn
           message ==
             [id |-> nextMsgId,
              conversation_id |-> loc[p].conv,
              role |-> IF user THEN "user" ELSE "assistant",
              content |-> IF user THEN loc[p].message
                          ELSE loc[p].response[1].content,
              tool_calls |-> IF user THEN Null
                             ELSE ToolCallsData(loc[p].response[1].tool_calls),
              created_at |-> built,
              turn |-> turn]
       IN  /\ loc' = Set(p, [loc[p] EXCEPT
                      !.turn = turn,
                      !.msg = Some(message),
                      !.touch = IF loc[p].conv \in DOMAIN conversations
                                THEN Some(now) ELSE Null,
                      !.touches = IF loc[p].conv \in DOMAIN conversations
                                  THEN loc[p].touches + 1 ELSE loc[p].touches])
           /\ clock' = now
           /\ pc' = [pc EXCEPT ![p] = IF user THEN "commit_user" ELSE "commit_asst"]
    /\ nextMsgId' = nextMsgId + 1
    /\ UNCHANGED <<conversations, messages, nextConvId, result,
                   creator, removed, shared>>
    /\ UNCHANGED taskVars

\* chat(), lines 149-156 and 174-178.
ChatResponse(p) ==
    [status |-> 200, detail |-> "",
     body |-> [conversation_id |-> loc[p].conv,
               response |-> loc[p].response[1].content,
               tool_calls |-> loc[p].response[1].tool_calls]]

\* A commit that leaves the touched conversation out of the unit of work.
CommittedConversationsNoTouch(p) == conversations

\* save_message, lines 111-115: the conversations table after the commit,
\* with the touched row written when the lookup found one.
CommittedConversations(p) ==
    IF loc[p].touch # Null
    THEN [conversations EXCEPT
            ![loc[p].conv] = Touch(conversations[loc[p].conv], loc[p].touch[1])]
    ELSE conversations

\* A save that commits the inserted message on its own and writes the touched
\* conversation in a second commit.
SaveCommitInTwo(p) ==
    /\ pc[p] \in {"commit_user", "commit_asst"}
    /\ IF loc[p].msg # Null
       THEN /\ messages' = Append(messages, loc[p].msg[1])
            /\ loc' = Set(p, [loc[p] EXCEPT !.msg = Null])
            /\ UNCHANGED <<conversations, pc, result>>
       ELSE /\ conversations' =
                 IF loc[p].touch # Null /\ loc[p].conv \in DOMAIN conversations
                 THEN [conversations EXCEPT ![loc[p].conv] =
                         Touch(conversations[loc[p].conv], loc[p].touch[1])]
                 ELSE conversations
            /\ pc' = [pc EXCEPT ![p] =
                        IF pc[p] = "commit_user" THEN "agent" ELSE "done"]
            /\ result' = [result EXCEPT ![p] =
                            IF pc[p] = "commit_user" THEN NoResult
                            ELSE ChatResponse(p)]
            /\ loc' = Set(p, [loc[p] EXCEPT !.touch = Null,
                     !.called = IF pc[p] = "commit_user" THEN Some(clock) ELSE Null])
            /\ UNCHANGED messages
    /\ UNCHANGED <<nextConvId, nextMsgId, clock, creator, removed, shared>>
    /\ UNCHANGED taskVars

\* A save whose commit is refused while another chat turn is at work on the
\* same conversation.
SaveCommitExclusive(p) ==
    /\ pc[p] \in {"commit_user", "commit_asst"}
    /\ LET user == pc[p] = "commit_user"
           conv == loc[p].conv
           busy == \E q \in Procs \ {p} :
                      /\ loc[q].op = "chat" /\ loc[q].conv = conv
                      /\ pc[q] # "done"
       IN  IF busy \/ (loc[p].touch # Null /\ conv \notin DOMAIN conversations)
           THEN /\ pc' = [pc EXCEPT ![p] = "done"]
                /\ result' = [result EXCEPT ![p] = ChatFailure("StaleDataError")]
                /\ loc' = Set(p, [loc[p] EXCEPT !.msg = Null, !.touch = Null,
                                                !.error = Some("StaleDataError")])
                /\ UNCHANGED <<conversations, messages>>
           ELSE /\ messages' = Append(messages, loc[p].msg[1])
                /\ conversations' = CommittedConversations(p)
                /\ pc' = [pc EXCEPT ![p] = IF user THEN "agent" ELSE "done"]
                /\ result' = [result EXCEPT ![p] =
                                IF user THEN NoResult ELSE ChatResponse(p)]
                /\ loc' = Set(p, [loc[p] EXCEPT !.msg = Null, !.touch = Null,
                                    !.called = IF user THEN Some(clock) ELSE Null])
    /\ UNCHANGED <<nextConvId, nextMsgId, clock, creator, removed, shared>>
    /\ UNCHANGED taskVars

\* save_message, lines 115-118: the commit, and the refresh of the row just
\* committed.  The flush updates the touched row by primary key; when that
\* row is gone the unit of work fails and nothing of the session is committed.
SaveCommit(p) ==
    /\ pc[p] \in {"commit_user", "commit_asst"}
    /\ LET user == pc[p] = "commit_user"
           conv == loc[p].conv
       IN  IF loc[p].touch # Null /\ conv \notin DOMAIN conversations
           THEN /\ pc' = [pc EXCEPT ![p] = "done"]
                /\ result' = [result EXCEPT ![p] = ChatFailure("StaleDataError")]
                /\ loc' = Set(p, [loc[p] EXCEPT !.msg = Null, !.touch = Null,
                                                !.error = Some("StaleDataError")])
                /\ UNCHANGED <<conversations, messages>>
           ELSE /\ messages' = Append(messages, loc[p].msg[1])
                /\ conversations' = CommittedConversations(p)
                /\ pc' = [pc EXCEPT ![p] = IF user THEN "agent" ELSE "done"]
                /\ result' = [result EXCEPT ![p] =
                                IF user THEN NoResult ELSE ChatResponse(p)]
                /\ loc' = Set(p, [loc[p] EXCEPT !.msg = Null, !.touch = Null,
                                    !.called = IF user THEN Some(clock) ELSE Null])
    /\ UNCHANGED <<nextConvId, nextMsgId, clock, creator, removed, shared>>
    /\ UNCHANGED taskVars

\* run_agent returns, line 147: later than it was called (called is the time
\* of the call).  history is not read again after the call.
AgentReturn(p) ==
    /\ pc[p] = "agent"
    /\ clock > loc[p].called[1] \/ clock < MaxClock
    /\ clock' = IF clock > loc[p].called[1] THEN clock ELSE clock + 1
    /\ \E content \in AgentContents, tool_calls \in AgentToolCalls :
         loc' = Set(p, [loc[p] EXCEPT
                  !.history = << >>, !.called = Null,
                  !.response = Some([content |-> content, tool_calls |-> tool_calls])])
    /\ pc' = [pc EXCEPT ![p] = "save_asst"]
    /\ UNCHANGED <<conversations, messages, nextConvId, nextMsgId, result,
                   creator, removed, shared>>
    /\ UNCHANGED taskVars

\* run_agent raises, lines 182-187.
AgentRaise(p) ==
    /\ pc[p] = "agent"
    /\ \E err \in AgentErrors :
         /\ result' = [result EXCEPT ![p] = ChatFailure(err)]
         /\ loc' = Set(p, [loc[p] EXCEPT !.history = << >>, !.called = Null,
                                         !.error = Some(err)])
    /\ pc' = [pc EXCEPT ![p] = "done"]
    /\ UNCHANGED <<conversations, messages, nextConvId, nextMsgId, clock,
                   creator, removed, shared>>
    /\ UNCHANGED taskVars

\* ------------------------------------------------- conversation directory

\* A lookup that drops the owner from the WHERE clause.
OwnedSelectAnyOwner(user_id, conversation_id) ==
    IF conversation_id \in DOMAIN conversations
    THEN Some(conversation_id) ELSE Null

\* lines 243-248 and 288-293: the conversation with that id and that owner.
OwnedSelect(user_id, conversation_id) ==
    IF /\ conversation_id \in DOMAIN conversations
       /\ conversations[conversation_id].user_id = user_id
    THEN Some(conversation_id) ELSE Null

\* lines 262-271
MessageResponse(m) ==
    [id |-> m.id, role |-> m.role, content |-> m.content,
     tool_calls |-> m.tool_calls, created_at |-> m.created_at]

\* get_conversation_messages, lines 239-251: the ownership check.
GetStart(p) ==
    /\ pc[p] = "idle"
    /\ \E u \in Users, cid \in ConvIdInputs :
        LET base == [NoLoc EXCEPT !.op = "get", !.user = u, !.cid = Some(cid)]
            found == OwnedSelect(u, cid)
        IN  IF found = Null
            THEN /\ pc' = [pc EXCEPT ![p] = "done"]
                 /\ loc' = Set(p, base)
                 /\ result' = [result EXCEPT ![p] = NotFound]
            ELSE /\ pc' = [pc EXCEPT ![p] = "get_msgs"]
                 /\ loc' = Set(p, [base EXCEPT !.conv = found[1]])
                 /\ UNCHANGED result
    /\ UNCHANGED <<conversations, messages, nextConvId, nextMsgId, clock,
                   creator, removed, shared>>
    /\ UNCHANGED taskVars

\* get_conversation_messages, lines 254-276.
GetMessages(p) ==
    /\ pc[p] = "get_msgs"
    /\ \E rows \in OrderByCreatedAt(MessagesOf(loc[p].conv)) :
         /\ result' = [result EXCEPT ![p] =
              [status |-> 200, detail |-> "",
               body |-> [conversation_id |-> loc[p].conv,
                         messages |-> [i \in 1..Len(rows) |-> MessageResponse(rows[i])]]]]
    /\ pc' = [pc EXCEPT ![p] = "done"]
    /\ UNCHANGED <<conversations, messages, nextConvId, nextMsgId, clock,
                   loc, creator, removed, shared>>
    /\ UNCHANGED taskVars

\* delete_conversation, lines 285-296: the ownership check.  The field
\* before is bookkeeping of the model: the messages the conversation had when
\* the delete started.
DeleteStart(p) ==
    /\ pc[p] = "idle"
    /\ \E u \in Users, cid \in ConvIdInputs :
        LET base == [NoLoc EXCEPT !.op = "delete", !.user = u, !.cid = Some(cid)]
            found == OwnedSelect(u, cid)
        IN  IF found = Null
            THEN /\ pc' = [pc EXCEPT ![p] = "done"]
                 /\ loc' = Set(p, base)
                 /\ result' = [result EXCEPT ![p] = NotFound]
                 /\ UNCHANGED shared
            ELSE /\ pc' = [pc EXCEPT ![p] = "del_msgs"]
                 /\ loc' = Set(p, [base EXCEPT !.conv = found[1],
                        !.before = { m.id : m \in MessagesOf(found[1]) }])
                 /\ shared' = shared \cup {found[1]}
                 /\ UNCHANGED result
    /\ UNCHANGED <<conversations, messages, nextConvId, nextMsgId, clock,
                   creator, removed>>
    /\ UNCHANGED taskVars

\* delete_conversation, lines 299-305: select the messages, mark each and the
\* conversation for deletion.
DeleteSelect(p) ==
    /\ pc[p] = "del_msgs"
    /\ loc' = Set(p, [loc[p] EXCEPT
                !.marked = { m.id : m \in MessagesOf(loc[p].conv) }])
    /\ pc' = [pc EXCEPT ![p] = "del_commit"]
    /\ UNCHANGED <<conversations, messages, nextConvId, nextMsgId, clock,
                   result, creator, removed, shared>>
    /\ UNCHANGED taskVars

\* A delete that commits the message deletions on their own and removes the
\* conversation row in a second commit.
DeleteCommitInTwo(p) ==
    /\ pc[p] = "del_commit"
    /\ messages' = FilterOut(messages, loc[p].marked)
    /\ removed' = removed \cup (loc[p].marked \cap { m.id : m \in SeqToSet(messages) })
    /\ loc' = Set(p, [loc[p] EXCEPT !.marked = {}])
    /\ IF loc[p].marked = {}
       THEN /\ conversations' =
                 [c \in DOMAIN conversations \ {loc[p].conv} |-> conversations[c]]
            /\ pc' = [pc EXCEPT ![p] = "done"]
            /\ result' = [result EXCEPT ![p] =
                            [status |-> 204, detail |-> "", body |-> << >>]]
       ELSE UNCHANGED <<conversations, pc, result>>
    /\ UNCHANGED <<nextConvId, nextMsgId, clock, creator, shared>>
    /\ UNCHANGED taskVars

\* delete_conversation, line 306: one commit removes the marked messages and
\* the conversation row.  A row that is already gone is skipped.
DeleteCommit(p) ==
    /\ pc[p] = "del_commit"
    /\ messages' = FilterOut(messages, loc[p].marked)
    /\ conversations' =
         [c \in DOMAIN conversations \ {loc[p].conv} |-> conversations[c]]
    /\ removed' = removed \cup (loc[p].marked \cap { m.id : m \in SeqToSet(messages) })
    /\ pc' = [pc EXCEPT ![p] = "done"]
    /\ result' = [result EXCEPT ![p] =
                    [status |-> 204, detail |-> "", body |-> << >>]]
    /\ UNCHANGED <<nextConvId, nextMsgId, clock, loc, creator, shared>>
    /\ UNCHANGED taskVars

\* list_conversations, lines 195-204: the caller's conversations, most
\* recently updated first.
ListStart(p) ==
    /\ pc[p] = "idle"
    /\ \E u \in Users :
       \E convs \in OrderByUpdatedAtDesc(
                      { c \in DOMAIN conversations : conversations[c].user_id = u }) :
         loc' = Set(p, [NoLoc EXCEPT !.op = "list", !.user = u,
                          !.rows = [i \in 1..Len(convs) |->
                                      [id |-> convs[i],
                                       created_at |-> conversations[convs[i]].created_at,
                                       updated_at |-> conversations[convs[i]].updated_at]]])
    /\ pc' = [pc EXCEPT ![p] = "list_preview"]
    /\ UNCHANGED <<conversations, messages, nextConvId, nextMsgId, clock,
                   result, creator, removed, shared>>
    /\ UNCHANGED taskVars

\* line 221: first_msg.content[:80] if first_msg else "New conversation"
Preview(first_msg) ==
    IF first_msg # Null THEN Truncate(first_msg[1].content, PreviewLen)
    ELSE NewConversation

\* list_conversations, lines 207-230: one preview query per conversation,
\* then the response.
ListPreview(p) ==
    /\ pc[p] = "list_preview"
    /\ IF loc[p].rows = << >>
       THEN /\ pc' = [pc EXCEPT ![p] = "done"]
            /\ result' = [result EXCEPT ![p] =
                 [status |-> 200, detail |-> "", body |-> loc[p].responses]]
            /\ UNCHANGED loc
       ELSE LET conv == Head(loc[p].rows)
                cands == OrderByCreatedAt(UserMessagesOf(conv.id))
            IN  /\ \E rows \in cands :
                     LET first_msg == IF rows = << >> THEN Null ELSE Some(rows[1])
                     IN  loc' = Set(p, [loc[p] EXCEPT
                            !.rows = Tail(loc[p].rows),
                            !.responses = Append(loc[p].responses,
                               [id |-> conv.id, created_at |-> conv.created_at,
                                updated_at |-> conv.updated_at,
                                preview |-> Preview(first_msg)])])
                /\ UNCHANGED <<pc, result>>
    /\ UNCHANGED <<conversations, messages, nextConvId, nextMsgId, clock,
                   creator, removed, shared>>
    /\ UNCHANGED taskVars

\* -------------------------------------------------- tasks (api/tasks.py)

TaskTitles == { <<" ">>, <<" ", "t">> }

\* UpdateTaskRequest: title and is_completed are both optional.
UpdateTitles == { Null, Some(<<"u", " ">>) }
UpdateCompleted == { Null, Some(TRUE), Some(FALSE) }

\* Task ids a client can send: an id no task ever had (fresh ids start at 1),
\* or the id of any task that was ever created.
UnknownTaskId == 0
TaskIdInputs == { UnknownTaskId } \cup (1..(nextTaskId - 1))

DetailTask404 == "Task not found."
DetailTask400 == "Task title cannot be empty."
DetailInternal == "Internal Server Error"

TaskNotFound == [status |-> 404, detail |-> DetailTask404, body |-> << >>]

\* Task(user_id=user_id, title=title): fresh id, not completed,
\* created_at = updated_at = now.
NewTaskRow(user_id, title, now) ==
    [user_id |-> user_id, title |-> title, is_completed |-> FALSE,
     created_at |-> now, updated_at |-> now]

\* Task.update_title(title)
UpdateTitle(row, title, now) == [row EXCEPT !.title = title, !.updated_at = now]

\* Task.mark_complete()
MarkComplete(row, now) == [row EXCEPT !.is_completed = TRUE, !.updated_at = now]

\* _task_to_response, lines 48-55
TaskToResponse(id, row) ==
    [id |-> id, title |-> row.title, is_completed |-> row.is_completed,
     created_at |-> row.created_at, updated_at |-> row.updated_at]

\* A lookup that drops the owner from the WHERE clause.
TaskSelectAnyOwner(user_id, task_id) ==
    IF task_id \in DOMAIN tasks THEN Some(task_id) ELSE Null

\* lines 115-117, 148-150, 177-179:
\* select(Task).where(Task.id == task_id, Task.user_id == user_id)
TaskSelect(user_id, task_id) ==
    IF task_id \in DOMAIN tasks /\ tasks[task_id].user_id = user_id
    THEN Some(task_id) ELSE Null

\* ORDER BY created_at DESC over task ids.
RECURSIVE OrderTasksByCreatedAtDesc(_)
OrderTasksByCreatedAtDesc(S) ==
    IF S = {} THEN { << >> }
    ELSE UNION { { <<t>> \o r : r \in OrderTasksByCreatedAtDesc(S \ {t}) } :
                 t \in { x \in S : \A y \in S :
                            tasks[x].created_at >= tasks[y].created_at } }

\* A list that drops the owner from the WHERE clause.
TasksOfAnyOwner(user_id) == DOMAIN tasks

\* list_tasks, lines 64-68: select(Task).where(Task.user_id == user_id)
TasksOf(user_id) == { t \in DOMAIN tasks : tasks[t].user_id = user_id }

\* list_tasks, lines 58-81
ListTasks(p) ==
    /\ pc[p] = "idle"
    /\ \E u \in Users : \E ids \in OrderTasksByCreatedAtDesc(TasksOf(u)) :
         LET task_responses ==
                 [i \in 1..Len(ids) |-> TaskToResponse(ids[i], tasks[ids[i]])]
             completed ==
                 Cardinality({ i \in 1..Len(ids) : tasks[ids[i]].is_completed })
         IN  /\ tloc' = [tloc EXCEPT ![p] =
                          [NoTask EXCEPT !.op = "list_tasks", !.user = u]]
             /\ result' = [result EXCEPT ![p] =
                  [status |-> 200, detail |-> "",
                   body |-> [tasks |-> task_responses, total |-> Len(ids),
                             completed |-> completed,
                             pending |-> Len(ids) - completed]]]
    /\ pc' = [pc EXCEPT ![p] = "done"]
    /\ UNCHANGED <<tasks, nextTaskId, clock>>
    /\ UNCHANGED <<conversations, messages, nextConvId, nextMsgId, loc,
                   creator, removed, shared>>

\* create_task, lines 84-103
CreateTask(p) ==
    /\ pc[p] = "idle"
    /\ \E u \in Users, raw \in TaskTitles :
         LET title == Strip(raw)
             base == [NoTask EXCEPT !.op = "create_task", !.user = u]
         IN  IF title = << >>
             THEN /\ result' = [result EXCEPT ![p] =
                       [status |-> 400, detail |-> DetailTask400, body |-> << >>]]
                  /\ tloc' = [tloc EXCEPT ![p] = base]
                  /\ UNCHANGED <<tasks, nextTaskId, clock>>
             ELSE \E now \in Now :
                  /\ clock' = now
                  /\ tasks' = [t \in DOMAIN tasks \cup {nextTaskId} |->
                                 IF t = nextTaskId THEN NewTaskRow(u, title, now)
                                 ELSE tasks[t]]
                  /\ nextTaskId' = nextTaskId + 1
                  /\ tloc' = [tloc EXCEPT ![p] = [base EXCEPT !.task_id = nextTaskId]]
                  /\ result' = [result EXCEPT ![p] =
                       [status |-> 201, detail |-> "",
                        body |-> TaskToResponse(nextTaskId,
                                                NewTaskRow(u, title, now))]]
    /\ pc' = [pc EXCEPT ![p] = "done"]
    /\ UNCHANGED <<conversations, messages, nextConvId, nextMsgId, loc,
                   creator, removed, shared>>

\* update_task, lines 106-131: the lookup, and the changes made to the row
\* in the session before the commit.
UpdateTask(p) ==
    /\ pc[p] = "idle"
    /\ \E u \in Users, id \in TaskIdInputs,
          title \in UpdateTitles, is_completed \in UpdateCompleted :
         LET base == [NoTask EXCEPT !.op = "update_task", !.user = u,
                                    !.task_id = id]
             found == TaskSelect(u, id)
         IN  IF found = Null
             THEN /\ pc' = [pc EXCEPT ![p] = "done"]
                  /\ result' = [result EXCEPT ![p] = TaskNotFound]
                  /\ tloc' = [tloc EXCEPT ![p] = base]
                  /\ UNCHANGED clock
             ELSE \E t1 \in Now : \E t2 \in t1..MaxClock :
                  LET r1 == IF title # Null
                            THEN UpdateTitle(tasks[id], Strip(title[1]), t1)
                            ELSE tasks[id]
                      r2 == IF is_completed = Null THEN r1
                            ELSE IF is_completed[1] THEN MarkComplete(r1, t2)
                            ELSE [r1 EXCEPT !.is_completed = FALSE,
                                            !.updated_at = t2]
                  IN  /\ clock' = IF is_completed # Null THEN t2
                                  ELSE IF title # Null THEN t1 ELSE clock
                      /\ pc' = [pc EXCEPT ![p] = "task_commit"]
                      /\ tloc' = [tloc EXCEPT ![p] = [base EXCEPT !.row = Some(r2)]]
                      /\ UNCHANGED result
    /\ UNCHANGED <<tasks, nextTaskId>>
    /\ UNCHANGED <<conversations, messages, nextConvId, nextMsgId, loc,
                   creator, removed, shared>>

\* toggle_task, lines 139-159
ToggleTask(p) ==
    /\ pc[p] = "idle"
    /\ \E u \in Users, id \in TaskIdInputs :
         LET base == [NoTask EXCEPT !.op = "toggle_task", !.user = u,
                                    !.task_id = id]
             found == TaskSelect(u, id)
         IN  IF found = Null
             THEN /\ pc' = [pc EXCEPT ![p] = "done"]
                  /\ result' = [result EXCEPT ![p] = TaskNotFound]
                  /\ tloc' = [tloc EXCEPT ![p] = base]
                  /\ UNCHANGED clock
             ELSE \E t1 \in Now : \E t2 \in t1..MaxClock :
                  LET r1 == IF tasks[id].is_completed
                            THEN [tasks[id] EXCEPT !.is_completed = FALSE]
                            ELSE MarkComplete(tasks[id], t1)
                      r2 == [r1 EXCEPT !.updated_at = t2]
                  IN  /\ clock' = t2
                      /\ pc' = [pc EXCEPT ![p] = "task_commit"]
                      /\ tloc' = [tloc EXCEPT ![p] = [base EXCEPT !.row = Some(r2)]]
                      /\ UNCHANGED result
    /\ UNCHANGED <<tasks, nextTaskId>>
    /\ UNCHANGED <<conversations, messages, nextConvId, nextMsgId, loc,
                   creator, removed, shared>>

\* delete_task, lines 168-184
DeleteTask(p) ==
    /\ pc[p] = "idle"
    /\ \E u \in Users, id \in TaskIdInputs :
         LET base == [NoTask EXCEPT !.op = "delete_task", !.user = u,
                                    !.task_id = id]
             found == TaskSelect(u, id)
         IN  /\ tloc' = [tloc EXCEPT ![p] = base]
             /\ IF found = Null
                THEN /\ pc' = [pc EXCEPT ![p] = "done"]
                     /\ result' = [result EXCEPT ![p] = TaskNotFound]
                ELSE /\ pc' = [pc EXCEPT ![p] = "task_commit"]
                     /\ UNCHANGED result
    /\ UNCHANGED <<tasks, nextTaskId, clock>>
    /\ UNCHANGED <<conversations, messages, nextConvId, nextMsgId, loc,
                   creator, removed, shared>>

\* lines 133-136, 161-165, 184-185: the commit.  An UPDATE of a row that is
\* gone fails the flush, and the handler catches nothing: the framework
\* answers 500.  A DELETE of a row that is gone is skipped.
TaskCommit(p) ==
    /\ pc[p] = "task_commit"
    /\ LET id == tloc[p].task_id
       IN  IF tloc[p].op = "delete_task"
           THEN /\ tasks' = [t \in DOMAIN tasks \ {id} |-> tasks[t]]
                /\ result' = [result EXCEPT ![p] =
                                [status |-> 204, detail |-> "", body |-> << >>]]
           ELSE IF id \notin DOMAIN tasks
           THEN /\ result' = [result EXCEPT ![p] =
                                [status |-> 500, detail |-> DetailInternal,
                                 body |-> << >>]]
                /\ UNCHANGED tasks
           ELSE /\ tasks' = [tasks EXCEPT ![id] = tloc[p].row[1]]
                /\ result' = [result EXCEPT ![p] =
                                [status |-> 200, detail |-> "",
                                 body |-> TaskToResponse(id, tloc[p].row[1])]]
    /\ pc' = [pc EXCEPT ![p] = "done"]
    /\ UNCHANGED <<nextTaskId, clock, tloc>>
    /\ UNCHANGED <<conversations, messages, nextConvId, nextMsgId, loc,
                   creator, removed, shared>>

\* A store that two earlier requests have left: B and then A created a task.
PopulatedTasks ==
    <<[user_id |-> "B", title |-> <<"t">>, is_completed |-> FALSE,
       created_at |-> 0, updated_at |-> 0],
      [user_id |-> "A", title |-> <<"t">>, is_completed |-> FALSE,
       created_at |-> 0, updated_at |-> 0]>>

InitTasks ==
    /\ conversations = << >>
    /\ messages = << >>
    /\ nextConvId = 1
    /\ nextMsgId = 1
    /\ clock = 0
    /\ pc = [p \in Procs |-> "idle"]
    /\ loc = [p \in Procs |-> NoLoc]
    /\ result = [p \in Procs |-> NoResult]
    /\ creator = << >>
    /\ removed = {}
    /\ shared = {}
    /\ tasks = PopulatedTasks
    /\ nextTaskId = 3
    /\ tloc = [p \in Procs |-> NoTask]

TaskNext ==
    \E p \in Procs :
        \/ ListTasks(p)
        \/ CreateTask(p)
        \/ UpdateTask(p)
        \/ ToggleTask(p)
        \/ DeleteTask(p)
        \/ TaskCommit(p)

TaskSpec == InitTasks /\ [][TaskNext]_vars

\* ------------------------------------------------------------ the system

Next ==
    \E p \in Procs :
        \/ ChatStart(p)
        \/ LoadHistory(p)
        \/ SaveBegin(p)
        \/ SaveCommit(p)
        \/ AgentReturn(p)
        \/ AgentRaise(p)
        \/ GetStart(p)
        \/ GetMessages(p)
        \/ DeleteStart(p)
        \/ DeleteSelect(p)
        \/ DeleteCommit(p)
        \/ ListStart(p)
        \/ ListPreview(p)

Spec == Init /\ [][Next]_vars

\* A store that earlier requests have left, with no request in flight:
\*   A: POST /chat {LongMessage} created conversation 1 at time 0 and saved
\*      message 1; the agent answered and message 3 was saved at time 1;
\*   B: POST /chat {" a\t"} created conversation 2 at time 0 and saved message
\*      2; the agent raised;
\*   A: POST /chat {" a\t", conversation_id: 1} saved message 4 at time 1; the
\*      agent raised.
PopulatedConversations ==
    <<[user_id |-> "A", created_at |-> 0, updated_at |-> 1],
      [user_id |-> "B", created_at |-> 0, updated_at |-> 0]>>

PopulatedMessages ==
    <<[id |-> 1, conversation_id |-> 1, role |-> "user", content |-> LongMessage,
       tool_calls |-> Null, created_at |-> 0, turn |-> 1],
      [id |-> 2, conversation_id |-> 2, role |-> "user", content |-> <<"a">>,
       tool_calls |-> Null, created_at |-> 0, turn |-> 2],
      [id |-> 3, conversation_id |-> 1, role |-> "assistant",
       content |-> <<"o", "k">>, tool_calls |-> Null, created_at |-> 1, turn |-> 1],
      [id |-> 4, conversation_id |-> 1, role |-> "user", content |-> <<"a">>,
       tool_calls |-> Null, created_at |-> 1, turn |-> 4]>>

InitPopulated ==
    /\ conversations = PopulatedConversations
    /\ messages = PopulatedMessages
    /\ nextConvId = 3
    /\ nextMsgId = 5
    /\ clock = 1
    /\ pc = [p \in Procs |-> "idle"]
    /\ loc = [p \in Procs |-> NoLoc]
    /\ result = [p \in Procs |-> NoResult]
    /\ creator = <<"A", "B">>
    /\ removed = {}
    /\ shared = {1}
    /\ tasks = << >>
    /\ nextTaskId = 1
    /\ tloc = [p \in Procs |-> NoTask]

DirectorySpec == InitPopulated /\ [][Next]_vars

\* A store that two racing requests have left, with no request in flight:
\*   A: POST /chat {LongMessage} created conversation 1 at time 0 and built
\*      message 1 at time 0;
\*   A: POST /chat {" a\t", conversation_id: 1} built message 2 at time 1 and
\*      committed it; the agent raised;
\*   the first request then committed message 1; the agent raised.
RacedConversations ==
    <<[user_id |-> "A", created_at |-> 0, updated_at |-> 0]>>

RacedMessages ==
    <<[id |-> 2, conversation_id |-> 1, role |-> "user", content |-> <<"a">>,
       tool_calls |-> Null, created_at |-> 1, turn |-> 2],
      [id |-> 1, conversation_id |-> 1, role |-> "user", content |-> LongMessage,
       tool_calls |-> Null, created_at |-> 0, turn |-> 1]>>

InitRaced ==
    /\ conversations = RacedConversations
    /\ messages = RacedMessages
    /\ nextConvId = 2
    /\ nextMsgId = 3
    /\ clock = 1
    /\ pc = [p \in Procs |-> "idle"]
    /\ loc = [p \in Procs |-> NoLoc]
    /\ result = [p \in Procs |-> NoResult]
    /\ creator = <<"A">>
    /\ removed = {}
    /\ shared = {1}
    /\ tasks = << >>
    /\ nextTaskId = 1
    /\ tloc = [p \in Procs |-> NoTask]

RacedSpec == InitRaced /\ [][Next]_vars

\* The statements a handler runs on its own once its request is in: each is
\* an await on the store, which answers.  The await of run_agent (line 147)
\* is not among them: chat() passes no timeout and wraps the call in none, so
\* the handler resumes only when the agent returns or raises.
HandlerStep(p) ==
    \/ LoadHistory(p)
    \/ SaveBegin(p)
    \/ SaveCommit(p)
    \/ GetMessages(p)
    \/ DeleteSelect(p)
    \/ DeleteCommit(p)
    \/ ListPreview(p)

FairSpec == Spec /\ \A p \in Procs : WF_vars(HandlerStep(p))

\* ------------------------------------------------------------- vocabulary

IsBlank(raw) == \A i \in 1..Len(raw) : raw[i] \in Whitespace

\* t is raw without its surrounding whitespace.
IsTrimOf(t, raw) ==
    /\ t # << >>
    /\ t[1] \notin Whitespace
    /\ t[Len(t)] \notin Whitespace
    /\ \E i \in 1..Len(raw) :
         /\ i + Len(t) - 1 <= Len(raw)
         /\ SubSeq(raw, i, i + Len(t) - 1) = t
         /\ \A k \in 1..Len(raw) :
              (k < i \/ k > i + Len(t) - 1) => raw[k] \in Whitespace

Ids(rows) == { rows[i].id : i \in 1..Len(rows) }

ConvIds == 1..Len(creator)

\* The request p is serving has just been received in this step.
Starts(p, op) == pc[p] = "idle" /\ loc'[p].op = op

\* -------------------------------------------------------------------- C1
\* C1: a chat turn whose message is blank after trimming is answered 400 with
\* the validation text and writes nothing: conversations (with every
\* updated_at) and messages are the same after the step as before it,
\* whatever conversation_id the request carries.
C1_BlankMessageRejected ==
    [][\A p \in Procs :
         (Starts(p, "chat") /\ IsBlank(loc'[p].raw)) =>
            /\ pc'[p] = "done"
            /\ result'[p].status = 400
            /\ result'[p].detail = Detail400
            /\ conversations' = conversations
            /\ messages' = messages
            /\ nextConvId' = nextConvId]_vars

C1_Witness ==
    \E p \in Procs :
        /\ pc[p] = "done" /\ loc[p].op = "chat"
        /\ loc[p].raw # << >> /\ IsBlank(loc[p].raw)
        /\ loc[p].cid # Null
        /\ loc[p].cid[1] \in DOMAIN conversations
        /\ conversations[loc[p].cid[1]].user_id = loc[p].user
        /\ MessagesOf(loc[p].cid[1]) # {}
        /\ result[p].status = 400

\* -------------------------------------------------------------------- C2
\* C2: when a chat turn with a non-blank message and no conversation_id has
\* answered 200 and no other chat or delete has resolved its conversation,
\* the conversation holds exactly two messages: the user message with the
\* trimmed input, and after it the assistant message with the agent's
\* content; updated_at is >= created_at and greater than the value the row
\* was created with.
C2_TurnWritesUserThenAssistant ==
    \A p \in Procs :
        (/\ pc[p] = "done" /\ loc[p].op = "chat"
         /\ result[p].status = 200
         /\ loc[p].cid = Null
         /\ result[p].body.conversation_id \notin shared) =>
            LET c == result[p].body.conversation_id
            IN  /\ c \in DOMAIN conversations
                /\ Cardinality(MessagesOf(c)) = 2
                /\ \A rows \in OrderByCreatedAt(MessagesOf(c)) :
                     /\ Len(rows) = 2
                     /\ rows[1].role = "user"
                     /\ IsTrimOf(rows[1].content, loc[p].raw)
                     /\ rows[2].role = "assistant"
                     /\ rows[2].content = result[p].body.response
                     /\ rows[2].content \in AgentContents
                /\ conversations[c].updated_at >= conversations[c].created_at
                /\ conversations[c].updated_at > conversations[c].created_at

C2_Witness ==
    \E p \in Procs :
        /\ pc[p] = "done" /\ loc[p].op = "chat"
        /\ result[p].status = 200
        /\ loc[p].cid = Null
        /\ result[p].body.conversation_id \notin shared
        /\ loc[p].raw # loc[p].message

\* -------------------------------------------------------------------- C3
\* C3: when the agent call raises, the step writes nothing (the user message
\* of the turn is not rolled back, no assistant message is written) and the
\* caller gets status 500 with the fixed retry-later text, which is none of
\* the raised errors; afterwards no assistant message of that turn is ever in
\* the store, and the user message of the turn is in the store unless a
\* delete of the conversation removed it.
AgentFailed(p) ==
    /\ pc[p] = "done" /\ loc[p].op = "chat"
    /\ loc[p].error # Null /\ loc[p].error[1] \in AgentErrors

OwnedBy(cid, u) ==
    /\ cid # Null
    /\ cid[1] \in DOMAIN conversations
    /\ conversations[cid[1]].user_id = u

C4_ResolveOrCreate ==
    [][\A p \in Procs :
         (Starts(p, "chat") /\ ~IsBlank(loc'[p].raw)) =>
            LET u == loc'[p].user
                cid == loc'[p].cid
                c == loc'[p].conv
            IN  /\ pc'[p] = "history"
                /\ messages' = messages
                /\ OwnedBy(cid, u) <=> ~loc'[p].created
                /\ OwnedBy(cid, u) =>
                     /\ c = cid[1]
                     /\ conversations' = conversations
                /\ ~OwnedBy(cid, u) =>
                     /\ c \notin ConvIds
                     /\ DOMAIN conversations' = DOMAIN conversations \cup {c}
                     /\ conversations'[c].user_id = u
                     /\ \A d \in DOMAIN conversations :
                          conversations'[d] = conversations[d]
                     /\ MessagesOf(c) = {}]_vars

C4_Witness ==
    \E p \in Procs :
        /\ loc[p].op = "chat" /\ loc[p].created
        /\ loc[p].cid # Null
        /\ loc[p].cid[1] \in DOMAIN conversations
        /\ conversations[loc[p].cid[1]].user_id # loc[p].user
        /\ MessagesOf(loc[p].cid[1]) # {}
        /\ conversations[loc[p].conv].user_id = loc[p].user

\* -------------------------------------------------------------------- C5
\* C5: a conversation's owner never changes, and no step of a request made by
\* one user resolves a conversation created by another user, changes or
\* removes its row (updated_at included), adds or removes a message of it,
\* or returns it or a message of it in a list or get-messages response.
Acting(p) == pc'[p] # pc[p] \/ loc'[p] # loc[p]

Requester(p) == IF pc[p] = "idle" THEN loc'[p].user ELSE loc[p].user

C5_OwnerIsolation ==
    [][/\ \A c \in ConvIds : creator'[c] = creator[c]
       /\ \A c \in DOMAIN conversations' : conversations'[c].user_id = creator'[c]
       /\ \A p \in Procs : Acting(p) =>
            \A c \in ConvIds : creator[c] # Requester(p) =>
               /\ c \in DOMAIN conversations =>
                    (c \in DOMAIN conversations' /\ conversations'[c] = conversations[c])
               /\ { m \in SeqToSet(messages') : m.conversation_id = c } = MessagesOf(c)
               /\ loc'[p].conv # c
               /\ loc'[p].op = "list" =>
                    /\ \A i \in 1..Len(loc'[p].rows) : loc'[p].rows[i].id # c
                    /\ \A i \in 1..Len(loc'[p].responses) : loc'[p].responses[i].id # c
               /\ (loc'[p].op = "get" /\ result'[p].status = 200) =>
                    \A i \in 1..Len(result'[p].body.messages) :
                       result'[p].body.messages[i].id \notin
                          { m.id : m \in MessagesOf(c) }]_vars

C5_Witness ==
    \E p \in Procs : \E c \in DOMAIN conversations :
        /\ pc[p] = "done"
        /\ loc[p].op \in {"get", "delete", "chat"}
        /\ loc[p].cid = Some(c)
        /\ creator[c] # loc[p].user
        /\ MessagesOf(c) # {}

\* -------------------------------------------------------------------- C6
\* C6: the history handed to the agent is read while the turn has not built
\* or saved its user message: it is the projection of exactly the messages
\* the conversation has in the store at that moment, in created_at order, and
\* the empty sequence when the conversation has none.
C6_HistoryReadBeforeSave ==
    [][\A p \in Procs :
         /\ (pc[p] = "history" /\ pc'[p] = "save_user") =>
              LET stored == MessagesOf(loc[p].conv)
              IN  /\ loc[p].msg = Null /\ loc[p].turn = 0
                  /\ messages' = messages
                  /\ Len(loc'[p].history) = Cardinality(stored)
                  /\ \E rows \in OrderByCreatedAt(stored) :
                       /\ Ids(rows) = { m.id : m \in stored }
                       /\ loc'[p].history =
                            [i \in 1..Len(rows) |->
                               [role |-> rows[i].role, content |-> rows[i].content]]
                  /\ stored = {} => loc'[p].history = << >>
         /\ (loc[p].op = "chat" /\ loc[p].turn = 0) =>
              \A m \in SeqToSet(messages) : m.id # loc'[p].turn]_vars

C6_Witness ==
    \E p \in Procs :
        /\ pc[p] = "save_user"
        /\ ~loc[p].created
        /\ Len(loc[p].history) = 2
        /\ loc[p].history[1].role = "user"
        /\ loc[p].history[2].role = "assistant"

\* -------------------------------------------------------------------- C7
\* C7: a delete is one change of the committed store: while the row of a
\* conversation stays, no step removes a message of it; the step that removes
\* the row is the commit of a delete of that conversation, and after it none
\* of the messages the conversation had when that delete started is left.
C7_DeleteIsAtomic ==
    [][\A c \in DOMAIN conversations :
         /\ c \in DOMAIN conversations' =>
              MessagesOf(c) \subseteq SeqToSet(messages')
         /\ c \notin DOMAIN conversations' =>
              \E p \in Procs :
                 /\ pc[p] = "del_commit" /\ pc'[p] = "done"
                 /\ loc[p].conv = c
                 /\ result'[p].status = 204
                 /\ \A m \in SeqToSet(messages') : m.id \notin loc[p].before]_vars

C7_Witness ==
    \E p \in Procs :
        /\ pc[p] = "done" /\ loc[p].op = "delete"
        /\ result[p].status = 204
        /\ Cardinality(loc[p].before) = 2
        /\ loc[p].conv \notin DOMAIN conversations
        /\ MessagesOf(loc[p].conv) = {}

\* -------------------------------------------------------------------- C9
\* C9: get-messages and delete for a conversation id that does not exist or
\* belongs to another user answer 404 with the not-found text and no body,
\* and change no conversation and no message.
C9_NotFoundLeavesStore ==
    [][\A p \in Procs :
         ((Starts(p, "get") \/ Starts(p, "delete"))
            /\ ~OwnedBy(loc'[p].cid, loc'[p].user)) =>
              /\ pc'[p] = "done"
              /\ result'[p].status = 404
              /\ result'[p].detail = Detail404
              /\ result'[p].body = << >>
              /\ conversations' = conversations
              /\ messages' = messages]_vars

C9_Witness ==
    \E p \in Procs : \E c \in DOMAIN conversations :
        /\ pc[p] = "done" /\ loc[p].op = "delete"
        /\ loc[p].cid = Some(c)
        /\ conversations[c].user_id # loc[p].user
        /\ MessagesOf(c) # {}
        /\ result[p].status = 404

\* -------------------------------------------------------------------- C8
\* C8: once a delete has removed a conversation, no message with that
\* conversation id is in the store, in any later state.
C8_NoMessageOfDeletedConversation ==
    \A c \in ConvIds :
        c \notin DOMAIN conversations => MessagesOf(c) = {}

\* -------------------------------------------------------------------- C10
\* C10: in every state of the store, each assistant message has the user
\* message of its own turn in the same conversation, with an earlier
\* created_at, so that every reader sees the user message before it.
C10_AssistantAfterItsUserMessage ==
    \A m \in SeqToSet(messages) :
        m.role = "assistant" =>
            \E u \in SeqToSet(messages) :
                /\ u.id = m.turn
                /\ u.role = "user"
                /\ u.conversation_id = m.conversation_id
                /\ u.created_at < m.created_at

\* -------------------------------------------------------------------- C11
\* C11: a chat turn that has called the agent always completes: when the agent
\* never returns the call is timed out and the turn ends as an agent failure.
C11_AgentCallIsBounded ==
    \A p \in Procs : (pc[p] = "agent") ~> (pc[p] = "done")

\* -------------------------------------------------------------------- C12
\* C12: no step that writes a message of a conversation lowers the stored
\* updated_at of that conversation, and after the step updated_at is >= the
\* created_at of every message of the conversation, also when two chat turns
\* write to the same conversation.
C12_UpdatedAtNeverDecreases ==
    [][\A c \in DOMAIN conversations \cap DOMAIN conversations' :
         MessagesOf(c)' # MessagesOf(c) =>
            /\ conversations'[c].updated_at >= conversations[c].updated_at
            /\ \A m \in MessagesOf(c)' :
                 conversations'[c].updated_at >= m.created_at]_vars

\* -------------------------------------------------------------------- C13
\* C13: in every step of the committed store, for a conversation that exists
\* after the step, a new message of it and a change of its row come together
\* and from one save: the step is the commit of a save_message on that
\* conversation, it adds exactly that save's message, and it leaves
\* updated_at at the value that save's touch read.  So no committed state,
\* whether read by a list request or left by a crash, holds the one without
\* the other.
Saving(p, c) ==
    /\ pc[p] \in {"commit_user", "commit_asst"}
    /\ pc'[p] \in {"agent", "done"}
    /\ loc[p].conv = c

C13_InsertAndTouchTogether ==
    [][\A c \in DOMAIN conversations' :
         (\/ MessagesOf(c)' # MessagesOf(c)
          \/ (c \in DOMAIN conversations /\ conversations'[c] # conversations[c])) =>
            \E p \in Procs :
               /\ Saving(p, c)
               /\ loc[p].msg # Null /\ loc[p].touch # Null
               /\ messages' = Append(messages, loc[p].msg[1])
               /\ conversations'[c].updated_at = loc[p].touch[1]]_vars

C13_Witness ==
    \E p, q \in Procs :
        /\ pc[p] = "agent"
        /\ \E m \in MessagesOf(loc[p].conv) : m.id = loc[p].turn
        /\ conversations[loc[p].conv].updated_at > conversations[loc[p].conv].created_at
        /\ pc[q] = "done" /\ loc[q].op = "list"
        /\ \E i \in 1..Len(result[q].body) :
              /\ result[q].body[i].id = loc[p].conv
              /\ result[q].body[i].updated_at = conversations[loc[p].conv].updated_at
              /\ result[q].body[i].preview = loc[p].message

\* -------------------------------------------------------------------- C14
\* C14: the select of list_conversations returns exactly the conversations
\* the caller owns, each once, with their stored updated_at, a conversation
\* with a greater updated_at before one with a smaller; the handler then
\* answers with those conversations in that order.
Listed(p) == [i \in 1..Len(loc[p].responses) |-> loc[p].responses[i].id]
             \o [i \in 1..Len(loc[p].rows) |-> loc[p].rows[i].id]

Earliest(S) == { m \in S : \A x \in S : m.created_at <= x.created_at }

IsPrefixOf(t, s) == Len(t) <= Len(s) /\ SubSeq(s, 1, Len(t)) = t

C15_PreviewIsEarliestUserMessage ==
    [][\A p \in Procs :
         (pc[p] = "list_preview" /\ pc'[p] = "list_preview" /\ Acting(p)) =>
            LET c == Head(loc[p].rows).id
                item == loc'[p].responses[Len(loc'[p].responses)]
                users == { m \in MessagesOf(c) : m.role = "user" }
            IN  /\ item.id = c
                /\ users = {} <=> item.preview = NewConversation
                /\ users # {} =>
                     \E m \in Earliest(users) :
                        /\ IsPrefixOf(item.preview, m.content)
                        /\ Len(item.preview) =
                             IF Len(m.content) > PreviewLen THEN PreviewLen
                             ELSE Len(m.content)]_vars

C15_Witness ==
    \E p \in Procs :
        /\ pc[p] = "done" /\ loc[p].op = "list"
        /\ \E i, j \in 1..Len(result[p].body) :
              LET c == result[p].body[i].id
              IN  /\ Len(result[p].body[i].preview) = PreviewLen
                  /\ \E m, n \in UserMessagesOf(c) :
                        /\ m.created_at < n.created_at
                        /\ Len(m.content) > PreviewLen
                        /\ n.content # m.content
                  /\ \E a \in MessagesOf(c) : a.role = "assistant"
                  /\ result[p].body[j].preview = NewConversation

\* -------------------------------------------------------------------- C16
\* C16: the rows the history read and get-messages return for a conversation
\* are its messages in the order in which they were committed (which is then
\* also non-decreasing in created_at): messages with the same created_at come
\* in insertion order, and a message committed later comes after every
\* message committed before it.
RECURSIVE InsertionOrder(_, _)
InsertionOrder(s, c) ==
    IF s = << >> THEN << >>
    ELSE IF Head(s).conversation_id = c
         THEN <<Head(s)>> \o InsertionOrder(Tail(s), c)
         ELSE InsertionOrder(Tail(s), c)

C16_ReadsInInsertionOrder ==
    [][\A p \in Procs :
         /\ (pc[p] = "get_msgs" /\ pc'[p] = "done") =>
              LET stored == InsertionOrder(messages, loc[p].conv)
              IN  result'[p].body.messages =
                     [i \in 1..Len(stored) |-> MessageResponse(stored[i])]
         /\ (pc[p] = "history" /\ pc'[p] = "save_user") =>
              loc'[p].history = Project(InsertionOrder(messages, loc[p].conv))]_vars

\* -------------------------------------------------------------------- C17
\* C17: when two chat turns work on the same conversation, neither waits for
\* the other or fails because of it: each can always take its next store
\* step, a turn fails only when its own agent call raises, and a turn that
\* answered 200 has its user message and its assistant message in the
\* conversation, the user message before the assistant message both in
\* commit order and in every created_at order a read can return.
Pos(rows, id) == CHOOSE i \in 1..Len(rows) : rows[i].id = id

Racing(p, q) ==
    /\ p # q
    /\ loc[p].op = "chat" /\ loc[q].op = "chat"
    /\ loc[p].message # << >> /\ loc[q].message # << >>
    /\ loc[p].conv = loc[q].conv

C17_RacingTurnsBothAppend ==
    \A p, q \in Procs : Racing(p, q) =>
        LET c == loc[p].conv
        IN  /\ pc[p] \in {"history", "save_user", "commit_user",
                          "save_asst", "commit_asst"} => ENABLED HandlerStep(p)
            /\ loc[p].error # Null => loc[p].error[1] \in AgentErrors
            /\ pc[p] = "done" =>
                 \/ result[p].status = 200
                 \/ result[p].status = 500 /\ loc[p].error # Null
            /\ pc[p] \in {"agent", "save_asst", "commit_asst", "done"} =>
                 \E u \in MessagesOf(c) :
                    /\ u.id = loc[p].turn /\ u.role = "user"
                    /\ u.content = loc[p].message
            /\ (pc[p] = "done" /\ result[p].status = 200) =>
                 \E u, a \in MessagesOf(c) :
                    /\ u.id = loc[p].turn /\ u.role = "user"
                    /\ a.turn = loc[p].turn /\ a.role = "assistant"
                    /\ a.content = result[p].body.response
                    /\ Pos(InsertionOrder(messages, c), u.id)
                          < Pos(InsertionOrder(messages, c), a.id)
                    /\ \A rows \in OrderByCreatedAt(MessagesOf(c)) :
                          Pos(rows, u.id) < Pos(rows, a.id)

C17_Witness ==
    \E p, q \in Procs :
        /\ Racing(p, q)
        /\ pc[p] = "done" /\ result[p].status = 200
        /\ pc[q] = "done" /\ result[q].status = 200
        /\ LET rows == InsertionOrder(messages, loc[p].conv)
           IN  /\ Len(rows) = 4
               /\ rows[1].role = "user" /\ rows[2].role = "user"
               /\ rows[1].turn # rows[2].turn
               /\ rows[3].turn = rows[2].turn
               /\ rows[4].turn = rows[1].turn

\* -------------------------------------------------------------------- C18
\* C18: every stored user message has tool_calls absent; every stored
\* assistant message has tool_calls absent or a non-empty list, never an
\* empty list; the save of a user message stores it with tool_calls absent,
\* and the save of an assistant message stores tool_calls absent when the
\* agent returned no tool call and otherwise the agent's tool calls as
\* {tool_name, arguments, result}, one per call and in the agent's order.
C18_ToolCallsAbsentOrNonEmpty ==
    [][/\ \A m \in SeqToSet(messages') :
            /\ m.tool_calls # Some(<< >>)
            /\ m.role = "user" => m.tool_calls = Null
            /\ m.role = "assistant" =>
                 (m.tool_calls = Null \/ Len(m.tool_calls[1]) > 0)
       /\ \A p \in Procs :
            /\ (pc[p] = "commit_user" /\ pc'[p] = "agent") =>
                 LET m == messages'[Len(messages')]
                 IN  /\ Len(messages') = Len(messages) + 1
                     /\ m.role = "user" /\ m.tool_calls = Null
            /\ (pc[p] = "commit_asst" /\ pc'[p] = "done"
                   /\ result'[p].status = 200) =>
                 LET m == messages'[Len(messages')]
                     agent == loc[p].response[1].tool_calls
                 IN  /\ Len(messages') = Len(messages) + 1
                     /\ m.role = "assistant"
                     /\ agent = << >> <=> m.tool_calls = Null
                     /\ agent # << >> =>
                          /\ Len(m.tool_calls[1]) = Len(agent)
                          /\ \A i \in 1..Len(agent) :
                               /\ DOMAIN m.tool_calls[1][i] =
                                    {"tool_name", "arguments", "result"}
                               /\ m.tool_calls[1][i].tool_name = agent[i].tool_name
                               /\ m.tool_calls[1][i].arguments = agent[i].arguments
                               /\ m.tool_calls[1][i].result = agent[i].result]_vars

C18_Witness ==
    \E m, n, u \in SeqToSet(messages) :
        /\ m.role = "assistant" /\ m.tool_calls # Null
        /\ Len(m.tool_calls[1]) = 2
        /\ m.tool_calls[1][1].tool_name = "add_task"
        /\ m.tool_calls[1][2].tool_name = "list_tasks"
        /\ n.role = "assistant" /\ n.tool_calls = Null
        /\ u.role = "user" /\ u.id = m.turn /\ u.tool_calls = Null

\* -------------------------------------------------------------------- C19
\* C19: a chat turn calls touch() on its conversation at most once, and a
\* turn that has answered 200, having saved its user message and its
\* assistant message, has called it exactly once.
C19_TouchOncePerTurn ==
    \A p \in Procs :
        loc[p].op = "chat" =>
            /\ loc[p].touches <= 1
            /\ (pc[p] = "done" /\ result[p].status = 200) => loc[p].touches = 1

\* -------------------------------------------------------------------- C20
\* C20: update_task, toggle_task and delete_task called with a task id that
\* does not exist or belongs to another user answer 404 "Task not found."
\* and leave every task as it was; no step of a task request changes or
\* removes a task of another user; list_tasks answers with exactly the
\* caller's tasks.
TaskStarts(p, ops) == pc[p] = "idle" /\ tloc'[p].op \in ops

TaskActing(p) == pc'[p] # pc[p] \/ tloc'[p] # tloc[p]

TaskRequester(p) == IF pc[p] = "idle" THEN tloc'[p].user ELSE tloc[p].user

OwnsTask(u, id) == id \in DOMAIN tasks /\ tasks[id].user_id = u

C20_TaskOperationsScopedToOwner ==
    [][\A p \in Procs :
         /\ (TaskStarts(p, {"update_task", "toggle_task", "delete_task"})
               /\ ~OwnsTask(tloc'[p].user, tloc'[p].task_id)) =>
              /\ pc'[p] = "done"
              /\ result'[p].status = 404
              /\ result'[p].detail = DetailTask404
              /\ tasks' = tasks
         /\ TaskActing(p) =>
              \A t \in DOMAIN tasks : tasks[t].user_id # TaskRequester(p) =>
                 (t \in DOMAIN tasks' /\ tasks'[t] = tasks[t])
         /\ TaskStarts(p, {"list_tasks"}) =>
              LET listed == result'[p].body.tasks
              IN  /\ result'[p].status = 200
                  /\ { listed[i].id : i \in 1..Len(listed) } =
                       { t \in DOMAIN tasks : tasks[t].user_id = tloc'[p].user }
                  /\ Len(listed) = result'[p].body.total
                  /\ \A i \in 1..Len(listed) :
                       tasks[listed[i].id].user_id = tloc'[p].user]_vars

C20_Witness ==
    \E p, q \in Procs :
        /\ pc[p] = "done" /\ tloc[p].op = "toggle_task"
        /\ tloc[p].task_id \in DOMAIN tasks
        /\ tasks[tloc[p].task_id].user_id # tloc[p].user
        /\ result[p].status = 404
        /\ pc[q] = "done" /\ tloc[q].op = "list_tasks"
        /\ tloc[q].user = tloc[p].user
        /\ Len(result[q].body.tasks) = 1

=============================================================================
